---- MODULE Spec2Model ----
(***************************************************************************)
(* A model of csim.c, the trace-driven set-associative cache simulator     *)
(* with LRU replacement.  The state is the simulated cache (struct cache:  *)
(* the sets with their lines, and one doubly linked list of lru_node per   *)
(* set), the performance counters (struct cache_performance) and the       *)
(* position of the run.  One step of the model is one iteration of the     *)
(* loop of simulate_cache, i.e. one record of the trace file.              *)
(***************************************************************************)
EXTENDS Integers, Sequences, FiniteSets, TLC

(***************************************************************************)
(* Bounds of the model.                                                    *)
(***************************************************************************)
\* the largest number of cache accesses (calls of cache_scan) in one run
MaxOps == 4
\* lines_per_set (-E) is drawn from 0..MaxLines
MaxLines == 2
\* the addresses of the trace records: with one offset bit and no set bit
\* they are the blocks 0 (0, 1), 1 (2, 3) and 2 (4)
Addresses == 0..4
\* the values of -s and of -b the model runs
SBitsRange == {0, 1}
BBitsRange == {0, 1}
\* a -s and -b with s + b > 64, which main passes on to setup_cache like
\* any other value but -1
RejectableConfigurations == {[sbits |-> 0, bytes_per_line |-> 65]}
\* the -s and -b of the runs of the model
Configurations ==
    [sbits : SBitsRange, bytes_per_line : BBitsRange] \cup RejectableConfigurations
\* what the three counters, which are never initialised, may hold when the
\* run starts (two representatives: all zero, and three different values)
IndeterminateCounters ==
    {[hits |-> 0, misses |-> 0, evictions |-> 0],
     [hits |-> 1, misses |-> 2, evictions |-> 4]}

(***************************************************************************)
(* Machine words.  A word is the set of its 1-bit positions, so that the   *)
(* 64-bit masks of get_set_and_tag keep their width.                       *)
(***************************************************************************)
\* the width of the C type int, the type of ~0
IntBits == 32
\* the width of unsigned long long, the type of the masks and of the address
ULLBits == 64
\* the null pointer of the lru_node lists
NULL == -1

\* What a shift by a count outside [0, width) does.  C leaves it undefined;
\* a build either uses the count modulo the width (x86-64, AArch64) or
\* shifts every bit out (ARM32, PowerPC).
ShiftSems == {"wrap", "zero"}

\* the bits of the natural number n (n < 2^31)
Bits(n) == {i \in 0..(IntBits - 2) : (n \div (2^i)) % 2 = 1}

RECURSIVE Value(_)
\* the natural number whose bits are w (every position of w below 31)
Value(w) == IF w = {} THEN 0
            ELSE LET i == CHOOSE j \in w : TRUE
                 IN 2^i + Value(w \ {i})

\* ~0 : the int with every bit set
NotZero == 0..(IntBits - 1)

\* x << n on an int
ShlInt(x, n, sem) ==
    LET k == IF n \in 0..(IntBits - 1) THEN n
             ELSE IF sem = "wrap" THEN n % IntBits ELSE IntBits
    IN {i + k : i \in {j \in x : j + k < IntBits}}

\* the conversion of an int to unsigned long long (sign extension)
IntToULL(x) == IF (IntBits - 1) \in x THEN x \cup (IntBits..(ULLBits - 1)) ELSE x

\* x >> n on an unsigned long long
ShrULL(x, n, sem) ==
    LET k == IF n \in 0..(ULLBits - 1) THEN n
             ELSE IF sem = "wrap" THEN n % ULLBits ELSE ULLBits
    IN {i - k : i \in {j \in x : j >= k}}

\* the conversion of an unsigned long long to int (loc->set_id): the low 32
\* bits, read as two's complement
ULLToInt(x) ==
    Value(x \cap (0..(IntBits - 2)))
      + (IF (IntBits - 1) \in x THEN 0 - 2^(IntBits - 2) - 2^(IntBits - 2) ELSE 0)

\* get_set_and_tag on words: the masks and the two fields, as the code
\* computes them
get_set_and_tag_bits(address, tbits, sbits, sem) ==
    LET tag_mask == IntToULL(ShlInt(NotZero, 64 - tbits, sem))
        set_mask0 == IntToULL(ShlInt(NotZero, 64 - sbits, sem))
        set_mask == ShrULL(set_mask0, tbits, sem)
    IN [tag_id |-> ShrULL(tag_mask \cap address, 64 - tbits, sem),
        set_id |-> ShrULL(set_mask \cap address, (64 - tbits) - sbits, sem)]

\* get_set_and_tag: the location (set_id, tag_id) of an address
get_set_and_tag(address, tbits, sbits, sem) ==
    LET loc == get_set_and_tag_bits(Bits(address), tbits, sbits, sem)
    IN [set_id |-> ULLToInt(loc.set_id), tag_id |-> Value(loc.tag_id)]

(***************************************************************************)
(* The cache.  sim_cache models struct cache: sets[i] is struct set with   *)
(* its array of lines, lru_tracker[i] is the list of lru_node of set i.    *)
(* A node is named by its place in the order of allocation: node 0 is the  *)
(* head sentry lru_tracker[i] points to, node k its k-th successor at      *)
(* construction; a node is the record of its prev, next and idx.           *)
(***************************************************************************)
\* the tag of a line that was never written: malloc leaves it indeterminate
Indeterminate == -1

\* enum HitOrMiss
HIT == "HIT"
COLD_MISS == "COLD_MISS"
MISS == "MISS"

\* pow(2, sbits), the number of sets
NumSets(sbits) == 2^sbits

\* allocate_lru_tracker: for every set the head sentry (idx 0, prev NULL)
\* followed by lines_per_set + 1 nodes with idx 1 .. lines_per_set + 1, the
\* last of them the tail sentry (next NULL)
allocate_lru_tracker(sbits, lines_per_set) ==
    [i \in 0..(NumSets(sbits) - 1) |->
        [k \in 0..(lines_per_set + 1) |->
            [prev |-> IF k = 0 THEN NULL ELSE k - 1,
             next |-> IF k = lines_per_set + 1 THEN NULL ELSE k + 1,
             idx |-> k]]]

\* allocate_cache: every set with its id and lines_per_set lines, valid = 0
\* and the tag not written.  overrun is not a field of struct set: it records
\* that memory outside the lines array of the set has been written.
allocate_cache(sbits, lines_per_set) ==
    [i \in 0..(NumSets(sbits) - 1) |->
        [id |-> i,
         lines |-> [j \in 0..(lines_per_set - 1) |->
                       [valid |-> FALSE, tag |-> Indeterminate]],
         overrun |-> FALSE]]

\* setup_cache: the cache main builds from -s, -E and -b
setup_cache(sbits, lines_per_set, bytes_per_line) ==
    [sbits |-> sbits,
     lines_per_set |-> lines_per_set,
     bytes_per_line |-> bytes_per_line,
     tbits |-> 64 - (sbits + bytes_per_line),
     sets |-> allocate_cache(sbits, lines_per_set),
     lru_tracker |-> allocate_lru_tracker(sbits, lines_per_set)]

\* a bug: the validity bit is written with every tag, 0 unless validate
store_line_writes_valid(sim_cache, set_id, index, tag_id, validate) ==
    IF index \in DOMAIN sim_cache.sets[set_id].lines
    THEN [sim_cache EXCEPT !.sets[set_id].lines[index] =
             [valid |-> validate, tag |-> tag_id]]
    ELSE [sim_cache EXCEPT !.sets[set_id].overrun = TRUE]

\* a bug: the line is written in sets[0] whatever the set_id
store_line_first_set(sim_cache, set_id, index, tag_id, validate) ==
    IF index \in DOMAIN sim_cache.sets[0].lines
    THEN [sim_cache EXCEPT !.sets[0].lines[index] =
             [valid |-> IF validate THEN TRUE ELSE @.valid, tag |-> tag_id]]
    ELSE [sim_cache EXCEPT !.sets[0].overrun = TRUE]

\* sim_cache->sets[set_id].lines[index].tag = tag_id, and .valid = true when
\* validate.  An index outside the array writes outside it.
store_line(sim_cache, set_id, index, tag_id, validate) ==
    IF index \in DOMAIN sim_cache.sets[set_id].lines
    THEN [sim_cache EXCEPT !.sets[set_id].lines[index] =
             [valid |-> IF validate THEN TRUE ELSE @.valid, tag |-> tag_id]]
    ELSE [sim_cache EXCEPT !.sets[set_id].overrun = TRUE]

RECURSIVE hit_walk(_, _, _, _, _)
\* the for loop of LRU_hit: the first of the lines_per_set nodes after the
\* head sentry with idx - 1 = z, NULL when the loop ends without one
hit_walk(nodes, current, i, lines_per_set, z) ==
    IF i >= lines_per_set THEN NULL
    ELSE IF nodes[current].idx - 1 = z THEN current
    ELSE hit_walk(nodes, nodes[current].next, i + 1, lines_per_set, z)

\* a bug: the tag of line z is written, its node is left where it is
LRU_hit_no_move(sim_cache, set_id, tag_id, z) ==
    store_line(sim_cache, set_id, z, tag_id, FALSE)

\* LRU_hit: the node of line z is unlinked and linked in behind the head
\* sentry, then the tag of its line is written
LRU_hit(sim_cache, set_id, tag_id, z) ==
    LET n0 == sim_cache.lru_tracker[set_id]
        front == 0
        current == hit_walk(n0, n0[front].next, 0, sim_cache.lines_per_set, z)
    IN IF current = NULL THEN sim_cache
       ELSE
        LET previous == n0[current].prev
            n1 == [n0 EXCEPT ![previous].next = current]
            nextup == n1[current].next
            n2 == [n1 EXCEPT ![nextup].prev = current]
            hit == current
            n3 == [n2 EXCEPT ![hit].prev = front]
            n4 == IF n3[front].next # current
                  THEN LET m1 == [n3 EXCEPT ![hit].next = n3[front].next]
                           m2 == [m1 EXCEPT ![m1[front].next].prev = hit]
                           m3 == [m2 EXCEPT ![previous].next = nextup]
                           m4 == [m3 EXCEPT ![nextup].prev = previous]
                       IN m4
                  ELSE n3
            n5 == [n4 EXCEPT ![front].next = hit]
        IN store_line([sim_cache EXCEPT !.lru_tracker[set_id] = n5],
                      set_id, n5[current].idx - 1, tag_id, FALSE)

RECURSIVE cold_walk_last(_, _, _, _, _)
\* a bug: the loop goes on to the last node whose line is not valid
cold_walk_last(nodes, lines, current, i, lines_per_set) ==
    IF i >= lines_per_set THEN NULL
    ELSE LET later == cold_walk_last(nodes, lines, nodes[current].next,
                                     i + 1, lines_per_set)
         IN IF later # NULL THEN later
            ELSE IF ~lines[nodes[current].idx - 1].valid THEN current
            ELSE NULL

RECURSIVE cold_walk(_, _, _, _, _)
\* the for loop of LRU_cold: the first of the lines_per_set nodes after the
\* head sentry whose line is not valid, NULL when the loop ends without one
cold_walk(nodes, lines, current, i, lines_per_set) ==
    IF i >= lines_per_set THEN NULL
    ELSE IF ~lines[nodes[current].idx - 1].valid THEN current
    ELSE cold_walk(nodes, lines, nodes[current].next, i + 1, lines_per_set)

\* a bug: the last node whose line is empty has its line filled and is left
\* where it is in the list
LRU_cold_last_in_place(sim_cache, set_id, tag_id) ==
    LET n0 == sim_cache.lru_tracker[set_id]
        current == cold_walk_last(n0, sim_cache.sets[set_id].lines, n0[0].next,
                                  0, sim_cache.lines_per_set)
    IN IF current = NULL THEN sim_cache
       ELSE store_line(sim_cache, set_id, n0[current].idx - 1, tag_id, TRUE)

\* LRU_cold: the first node in list order whose line is empty is linked in
\* behind the head sentry; its line receives the tag and becomes valid
LRU_cold(sim_cache, set_id, tag_id) ==
    LET n0 == sim_cache.lru_tracker[set_id]
        front == 0
        current == cold_walk(n0, sim_cache.sets[set_id].lines, n0[front].next,
                             0, sim_cache.lines_per_set)
    IN IF current = NULL THEN sim_cache
       ELSE
        LET previous == n0[current].prev
            n1 == [n0 EXCEPT ![previous].next = current]
            nextup == n1[current].next
            n2 == [n1 EXCEPT ![nextup].prev = current]
            empty == current
            n3 == [n2 EXCEPT ![empty].prev = front]
            n4 == IF n3[front].next # current
                  THEN LET m1 == [n3 EXCEPT ![empty].next = n3[front].next]
                           m2 == [m1 EXCEPT ![m1[front].next].prev = empty]
                           m3 == [m2 EXCEPT ![previous].next = nextup]
                           m4 == [m3 EXCEPT ![nextup].prev = previous]
                       IN m4
                  ELSE n3
            n5 == [n4 EXCEPT ![front].next = empty]
        IN store_line([sim_cache EXCEPT !.lru_tracker[set_id] = n5],
                      set_id, n5[current].idx - 1, tag_id, TRUE)

RECURSIVE miss_walk(_, _)
\* while(current->next != NULL) current = current->next;
miss_walk(nodes, current) ==
    IF nodes[current].next # NULL THEN miss_walk(nodes, nodes[current].next)
    ELSE current

\* a bug: the node behind the head sentry (the most recently used) is evicted
miss_victim_head(nodes, lines_per_set) == nodes[0].next

\* the node LRU_miss evicts: with more than one line the node before the
\* tail sentry, else the node behind the head sentry
miss_victim(nodes, lines_per_set) ==
    IF lines_per_set > 1 THEN nodes[miss_walk(nodes, nodes[0].next)].prev
    ELSE nodes[0].next

\* a bug: the victim is not given the old first node as its successor
LRU_miss_lost_link(sim_cache, set_id, tag_id) ==
    LET n0 == sim_cache.lru_tracker[set_id]
        front == 0
        current == miss_victim(n0, sim_cache.lines_per_set)
        n6 == IF sim_cache.lines_per_set > 1
              THEN LET n1 == [n0 EXCEPT ![n0[current].prev].next = n0[current].next]
                       n2 == [n1 EXCEPT ![n1[current].next].prev = n1[current].prev]
                       n3 == [n2 EXCEPT ![n2[front].next].prev = current]
                       n5 == [n3 EXCEPT ![current].prev = front]
                   IN [n5 EXCEPT ![front].next = current]
              ELSE n0
    IN store_line([sim_cache EXCEPT !.lru_tracker[set_id] = n6],
                  set_id, n6[current].idx - 1, tag_id, FALSE)

\* LRU_miss: with more than one line the victim is unlinked and linked in
\* behind the head sentry; the tag of its line is overwritten
LRU_miss(sim_cache, set_id, tag_id) ==
    LET n0 == sim_cache.lru_tracker[set_id]
        front == 0
        current == miss_victim(n0, sim_cache.lines_per_set)
        n6 == IF sim_cache.lines_per_set > 1
              THEN LET n1 == [n0 EXCEPT ![n0[current].prev].next = n0[current].next]
                       n2 == [n1 EXCEPT ![n1[current].next].prev = n1[current].prev]
                       n3 == [n2 EXCEPT ![n2[front].next].prev = current]
                       n4 == [n3 EXCEPT ![current].next = n3[front].next]
                       n5 == [n4 EXCEPT ![current].prev = front]
                   IN [n5 EXCEPT ![front].next = current]
              ELSE n0
    IN store_line([sim_cache EXCEPT !.lru_tracker[set_id] = n6],
                  set_id, n6[current].idx - 1, tag_id, FALSE)

\* lines[i].tag == tag_id && lines[i].valid.  The tag of a line that is not
\* valid is indeterminate: whatever the comparison yields, the conjunction
\* is false.
line_matches(ln, tag_id) == IF ln.valid THEN ln.tag = tag_id ELSE FALSE

\* a bug: only the first line of the set is compared
matching_lines_first_only(lines, lines_per_set, tag_id) ==
    {i \in (0..(lines_per_set - 1)) \cap {0} : line_matches(lines[i], tag_id)}

\* the lines the loop of cache_scan finds to match
matching_lines(lines, lines_per_set, tag_id) ==
    {i \in 0..(lines_per_set - 1) : line_matches(lines[i], tag_id)}

\* a bug: the flag is raised by a valid line instead of lowered by an
\* invalid one
some_line_valid(lines, lines_per_set) ==
    \E i \in 0..(lines_per_set - 1) : lines[i].valid

\* is_cache_full after the loop of cache_scan: no line of the set is invalid
all_lines_valid(lines, lines_per_set) ==
    \A i \in 0..(lines_per_set - 1) : lines[i].valid

\* cache_scan: HIT on the first line that matches; else MISS when every line
\* is valid (also when there is no line), else COLD_MISS
cache_scan(loc, sim_cache) ==
    LET set_id == loc.set_id
        tag_id == loc.tag_id
        lines == sim_cache.sets[set_id].lines
        matching == matching_lines(lines, sim_cache.lines_per_set, tag_id)
        is_cache_full == all_lines_valid(lines, sim_cache.lines_per_set)
    IN IF matching # {}
       THEN [result |-> HIT,
             sim_cache |-> LRU_hit(sim_cache, set_id, tag_id,
                                   CHOOSE i \in matching : \A j \in matching : i <= j)]
       ELSE IF is_cache_full
       THEN [result |-> MISS, sim_cache |-> LRU_miss(sim_cache, set_id, tag_id)]
       ELSE [result |-> COLD_MISS, sim_cache |-> LRU_cold(sim_cache, set_id, tag_id)]

(***************************************************************************)
(* The run.                                                                *)
(***************************************************************************)
VARIABLES
    sim_cache,  \* the simulated cache (struct cache) main sets up
    cp,         \* the performance counters (struct cache_performance)
    type,       \* *type: the type of the record read last, "" before the first
    shift_sem,  \* what the build makes of a shift by an out-of-range count
    pc,         \* "running" (in the loop of simulate_cache) or "crashed"
    hist,       \* history: one record per completed call of cache_scan
    cp0         \* history: the counters as the run found them

vars == <<sim_cache, cp, type, shift_sem, pc, hist, cp0>>

\* the tags of the valid lines of a set
ResidentTags(cache, set_id) ==
    {cache.sets[set_id].lines[i].tag :
        i \in {j \in DOMAIN cache.sets[set_id].lines : cache.sets[set_id].lines[j].valid}}

\* history only: the tags an access removed from its set
EvictedTags(before, after, set_id) ==
    ResidentTags(before, set_id) \ ResidentTags(after, set_id)

\* The shape of the state: struct cache with its sets (struct set, struct
\* line) and lists (struct lru_node), struct cache_performance, and the
\* history of the locations (struct location) and results (enum HitOrMiss)
TypeOK ==
    /\ [sbits |-> sim_cache.sbits, bytes_per_line |-> sim_cache.bytes_per_line]
          \in Configurations
    /\ sim_cache.lines_per_set \in 0..MaxLines
    /\ sim_cache.tbits = 64 - (sim_cache.sbits + sim_cache.bytes_per_line)
    /\ DOMAIN sim_cache.sets = 0..(NumSets(sim_cache.sbits) - 1)
    /\ DOMAIN sim_cache.lru_tracker = DOMAIN sim_cache.sets
    /\ \A k \in DOMAIN sim_cache.sets :
          /\ sim_cache.sets[k].id = k
          /\ sim_cache.sets[k].overrun \in BOOLEAN
          /\ DOMAIN sim_cache.sets[k].lines = 0..(sim_cache.lines_per_set - 1)
          /\ \A i \in DOMAIN sim_cache.sets[k].lines :
                /\ sim_cache.sets[k].lines[i].valid \in BOOLEAN
                /\ sim_cache.sets[k].lines[i].tag \in Nat \cup {Indeterminate}
          /\ DOMAIN sim_cache.lru_tracker[k] = 0..(sim_cache.lines_per_set + 1)
          /\ \A n \in DOMAIN sim_cache.lru_tracker[k] :
                /\ sim_cache.lru_tracker[k][n].idx = n
                /\ sim_cache.lru_tracker[k][n].prev
                      \in DOMAIN sim_cache.lru_tracker[k] \cup {NULL}
                /\ sim_cache.lru_tracker[k][n].next
                      \in DOMAIN sim_cache.lru_tracker[k] \cup {NULL}
    /\ cp \in [hits : Nat, misses : Nat, evictions : Nat]
    /\ cp0 \in IndeterminateCounters
    /\ type \in {"", "L", "S", "M", "I"}
    /\ shift_sem \in ShiftSems
    /\ pc \in {"running", "crashed"}
    /\ \A i \in 1..Len(hist) :
          /\ hist[i].address \in Addresses
          /\ hist[i].set_id \in DOMAIN sim_cache.sets
          /\ hist[i].tag_id \in Nat
          /\ hist[i].result \in {HIT, COLD_MISS, MISS}
          /\ hist[i].evicted \subseteq Nat
    /\ Len(hist) <= MaxOps

\* The state main hands to simulate_cache: the cache setup_cache builds for
\* the -s, -E and -b given, and the counters, which main allocates with
\* malloc and never initialises.
Init ==
    /\ shift_sem \in ShiftSems
    /\ \E c \in Configurations, E \in 0..MaxLines :
           sim_cache = setup_cache(c.sbits, E, c.bytes_per_line)
    /\ cp \in IndeterminateCounters
    /\ type = ""
    /\ pc = "running"
    /\ hist = <<>>
    /\ cp0 = cp

\* get_set_and_tag(loc, *address, sim_cache->tbits, sim_cache->sbits) as
\* simulate_cache calls it, tabulated for the widths and addresses of the model
Locations ==
    [sem \in ShiftSems,
     tbits \in {64 - (c.sbits + c.bytes_per_line) : c \in Configurations},
     sbits \in {c.sbits : c \in Configurations},
     address \in Addresses |-> get_set_and_tag(address, tbits, sbits, sem)]

\* a bug: a cold miss is not counted as a miss
count_without_cold(counters, t, result) ==
    LET c1 == IF t = "M" THEN [counters EXCEPT !.hits = @ + 1] ELSE counters
    IN IF result = HIT THEN [c1 EXCEPT !.hits = @ + 1]
       ELSE IF result = MISS
       THEN [c1 EXCEPT !.misses = @ + 1, !.evictions = @ + 1]
       ELSE c1

\* a bug: case 'M' does not count a hit of its own
count_modify_as_load(counters, t, result) ==
    IF result = HIT THEN [counters EXCEPT !.hits = @ + 1]
    ELSE IF result = COLD_MISS \/ result = MISS
    THEN LET c2 == [counters EXCEPT !.misses = @ + 1]
         IN IF result = MISS THEN [c2 EXCEPT !.evictions = @ + 1] ELSE c2
    ELSE counters

\* the counters after a record of the given type with the given result
count(counters, t, result) ==
    LET c1 == IF t = "M" THEN [counters EXCEPT !.hits = @ + 1] ELSE counters
    IN IF result = HIT THEN [c1 EXCEPT !.hits = @ + 1]
       ELSE IF result = COLD_MISS \/ result = MISS
       THEN LET c2 == [c1 EXCEPT !.misses = @ + 1]
            IN IF result = MISS THEN [c2 EXCEPT !.evictions = @ + 1] ELSE c2
       ELSE c1

\* One iteration of the loop of simulate_cache on a record of type M, S or
\* L.  A set_id outside the sets array makes cache_scan read a line pointer
\* from memory behind the array and the run dies on it; a write outside a
\* lines array (lines_per_set = 0) corrupts the heap, which the run may or
\* may not survive.
Access(t, address) ==
    /\ pc = "running"
    /\ Len(hist) < MaxOps
    /\ type' = t
    /\ LET loc == Locations[shift_sem, sim_cache.tbits, sim_cache.sbits, address]
       IN IF loc.set_id \notin DOMAIN sim_cache.sets
          THEN /\ pc' = "crashed"
               /\ cp' = IF t = "M" THEN [cp EXCEPT !.hits = @ + 1] ELSE cp
               /\ UNCHANGED <<sim_cache, hist>>
          ELSE LET r == cache_scan(loc, sim_cache)
               IN /\ sim_cache' = r.sim_cache
                  /\ cp' = count(cp, t, r.result)
                  /\ hist' = Append(hist,
                        [address |-> address, set_id |-> loc.set_id,
                         tag_id |-> loc.tag_id, result |-> r.result,
                         evicted |-> EvictedTags(sim_cache, r.sim_cache, loc.set_id)])
                  /\ IF r.sim_cache.sets[loc.set_id].overrun
                     THEN pc' \in {"running", "crashed"}
                     ELSE pc' = "running"
    /\ UNCHANGED <<shift_sem, cp0>>

\* case 'L'
Load(address) == Access("L", address)

\* case 'S'
Store(address) == Access("S", address)

\* a bug: case 'M' runs cache_scan once for the read and once for the write
Modify_scans_twice(address) ==
    /\ pc = "running"
    /\ Len(hist) < MaxOps
    /\ type' = "M"
    /\ LET loc == Locations[shift_sem, sim_cache.tbits, sim_cache.sbits, address]
       IN /\ loc.set_id \in DOMAIN sim_cache.sets
          /\ LET r1 == cache_scan(loc, sim_cache)
                 r2 == cache_scan(loc, r1.sim_cache)
             IN /\ sim_cache' = r2.sim_cache
                /\ cp' = count(count(cp, "L", r1.result), "L", r2.result)
                /\ hist' = hist \o
                      <<[address |-> address, set_id |-> loc.set_id,
                         tag_id |-> loc.tag_id, result |-> r1.result,
                         evicted |-> EvictedTags(sim_cache, r1.sim_cache, loc.set_id)],
                        [address |-> address, set_id |-> loc.set_id,
                         tag_id |-> loc.tag_id, result |-> r2.result,
                         evicted |-> {}]>>
                /\ pc' = "running"
    /\ UNCHANGED <<shift_sem, cp0>>

\* case 'M'
Modify(address) == Access("M", address)

\* a bug: case 'I' falls into the counting of a hit
Instruction_counts_hit ==
    /\ pc = "running"
    /\ type' = "I"
    /\ cp' = [cp EXCEPT !.hits = @ + 1]
    /\ UNCHANGED <<sim_cache, shift_sem, pc, hist, cp0>>

\* case 'I' (and default): the record is passed over, whatever its address
Instruction ==
    /\ pc = "running"
    /\ type' = "I"
    /\ UNCHANGED <<sim_cache, cp, shift_sem, pc, hist, cp0>>

Next ==
    \/ \E a \in Addresses : Load(a)
    \/ \E a \in Addresses : Store(a)
    \/ \E a \in Addresses : Modify(a)
    \/ Instruction

Spec == Init /\ [][Next]_vars

\* the runs on traces that hold L records only
NextLoads == \E a \in Addresses : Load(a)

SpecLoads == Init /\ [][NextLoads]_vars

\* one address of each of the blocks of Addresses at one offset bit
BlockAddresses == {a \in Addresses : a % 2 = 0}

\* the runs on traces of records of every type with these addresses
NextRecords ==
    \/ \E a \in BlockAddresses : Load(a)
    \/ \E a \in BlockAddresses : Store(a)
    \/ \E a \in BlockAddresses : Modify(a)
    \/ Instruction

SpecRecords == Init /\ [][NextRecords]_vars

(***************************************************************************)
(* Properties.                                                             *)
(***************************************************************************)
Last(seq) == seq[Len(seq)]

\* the step is a completed access: cache_scan returned
Accessed == Len(hist') = Len(hist) + 1

\* the indices of the sets
SetIds == DOMAIN sim_cache.sets

\* the indices of the lines of a set
Slots == 0..(sim_cache.lines_per_set - 1)

\* the accesses of a history that went to set k, in order
SetAccesses(h, k) == SelectSeq(h, LAMBDA r : r.set_id = k)

TagsOf(h) == [i \in 1..Len(h) |-> h[i].tag_id]
ResultsOf(h) == [i \in 1..Len(h) |-> h[i].result]

\* the place in h of the latest access to tag t of set k, 0 when there is none
LastAccess(h, k, t) ==
    LET I == {i \in 1..Len(h) : h[i].set_id = k /\ h[i].tag_id = t}
    IN IF I = {} THEN 0 ELSE CHOOSE i \in I : \A j \in I : j <= i

\* the resident tags of set k whose latest access is the oldest
LeastRecentlyTouched(cache, h, k) ==
    {t \in ResidentTags(cache, k) :
        \A u \in ResidentTags(cache, k) : LastAccess(h, k, t) <= LastAccess(h, k, u)}

\* the tags that stood in the lines of set k an access wrote to
OverwrittenTags(before, after, k) ==
    {before.sets[k].lines[i].tag :
        i \in {j \in DOMAIN before.sets[k].lines :
                  before.sets[k].lines[j] # after.sets[k].lines[j]}}

\* C1: in a set of N >= 1 lines an access classified MISS overwrites exactly
\* the tag of the resident line whose latest access (occupancy or hit) is the
\* oldest, and puts the accessed tag in its place; with N = 2 the tags
\* 1, 2, 1, 3 of one set are classified COLD_MISS, COLD_MISS, HIT, MISS and
\* the MISS evicts tag 2.
C1_MissEvictsLeastRecentlyTouched ==
    [][Accessed =>
        LET r == Last(hist')
            k == r.set_id
        IN /\ (r.result = MISS /\ sim_cache.lines_per_set >= 1) =>
                 /\ Cardinality(LeastRecentlyTouched(sim_cache, hist, k)) = 1
                 /\ OverwrittenTags(sim_cache, sim_cache', k)
                       = LeastRecentlyTouched(sim_cache, hist, k)
                 /\ r.evicted = LeastRecentlyTouched(sim_cache, hist, k)
                 /\ ResidentTags(sim_cache', k)
                       = (ResidentTags(sim_cache, k) \ r.evicted) \cup {r.tag_id}
           /\ (/\ sim_cache.lines_per_set = 2
               /\ TagsOf(hist') = <<1, 2, 1, 3>>
               /\ \A i \in 1..Len(hist') : hist'[i].set_id = k) =>
                 /\ ResultsOf(hist') = <<COLD_MISS, COLD_MISS, HIT, MISS>>
                 /\ r.evicted = {2}
    ]_vars

\* C1 witness: a set of two lines took the tags 1, 2, 1, 3 and the last
\* access, a MISS, evicted tag 2, which is not the tag written first
C1_Witness ==
    /\ sim_cache.lines_per_set = 2
    /\ TagsOf(hist) = <<1, 2, 1, 3>>
    /\ \A i \in 1..Len(hist) : hist[i].set_id = hist[1].set_id
    /\ Last(hist).result = MISS
    /\ Last(hist).evicted = {2}

RECURSIVE ListFrom(_, _, _)
\* the nodes met from node n along next, at most fuel of them
ListFrom(nodes, n, fuel) ==
    IF n = NULL \/ fuel = 0 THEN <<>>
    ELSE <<n>> \o ListFrom(nodes, nodes[n].next, fuel - 1)

\* the recency order of set k: the line indices (idx - 1) of the nodes
\* between the head sentry and the last node of the list
RecencyOrder(cache, k) ==
    LET nodes == cache.lru_tracker[k]
        all == ListFrom(nodes, 0, cache.lines_per_set + 3)
    IN [i \in 1..(Len(all) - 2) |-> nodes[all[i + 1]].idx - 1]

\* C2: in every reachable state the list of every set runs from the head
\* sentry through lines_per_set nodes to the tail sentry, and these nodes
\* name every line of the set exactly once.
C2_RecencyOrderIsPermutation ==
    \A k \in SetIds :
        LET nodes == sim_cache.lru_tracker[k]
            all == ListFrom(nodes, 0, sim_cache.lines_per_set + 3)
            order == RecencyOrder(sim_cache, k)
        IN /\ Len(all) = sim_cache.lines_per_set + 2
           /\ nodes[all[1]].idx = 0
           /\ nodes[Last(all)].idx = sim_cache.lines_per_set + 1
           /\ Len(order) = sim_cache.lines_per_set
           /\ {order[i] : i \in 1..Len(order)} = Slots

\* C2 witness: after a hit and an eviction the order of a set of two lines
\* is no longer the order of construction
C2_Witness ==
    /\ sim_cache.lines_per_set = 2
    /\ \E i \in 1..Len(hist) : hist[i].result = HIT
    /\ hist # <<>> /\ Last(hist).result = MISS
    /\ RecencyOrder(sim_cache, Last(hist).set_id) = <<1, 0>>

\* C3: in every reachable state no two valid lines of a set hold the same tag.
C3_NoDuplicateTags ==
    \A k \in SetIds : \A i, j \in Slots :
        (/\ i # j
         /\ sim_cache.sets[k].lines[i].valid
         /\ sim_cache.sets[k].lines[j].valid)
        => sim_cache.sets[k].lines[i].tag # sim_cache.sets[k].lines[j].tag

\* C3 witness: a full set of two lines whose second tag was accessed again,
\* followed by an eviction
C3_Witness ==
    /\ sim_cache.lines_per_set = 2
    /\ Len(hist) = 4
    /\ ResultsOf(hist) = <<COLD_MISS, COLD_MISS, HIT, MISS>>
    /\ hist[3].tag_id = hist[2].tag_id
    /\ \A i \in Slots : sim_cache.sets[hist[1].set_id].lines[i].valid

AddressesOf(h) == [i \in 1..Len(h) |-> h[i].address]

\* how many accesses of h have one of the results
CountOf(h, results) == Cardinality({i \in 1..Len(h) : h[i].result \in results})

\* C4 as claimed (L records only): the misses counter grows with the
\* accesses classified MISS only, and the trace 1, 2, 1, 3 on -s 0 -E 2 -b 0,
\* the counters starting at zero, ends with hits 1, misses 1, evictions 1.
C4_ColdMissesNotCounted ==
    /\ cp.misses = cp0.misses + CountOf(hist, {MISS})
    /\ (/\ sim_cache.sbits = 0
        /\ sim_cache.lines_per_set = 2
        /\ sim_cache.bytes_per_line = 0
        /\ cp0 = [hits |-> 0, misses |-> 0, evictions |-> 0]
        /\ AddressesOf(hist) = <<1, 2, 1, 3>>)
       => cp = [hits |-> 1, misses |-> 1, evictions |-> 1]

\* C4 amended (L records only): every access classified COLD_MISS or MISS
\* adds one to misses, every MISS one to evictions, every HIT one to hits; a
\* trace classified COLD_MISS, COLD_MISS, HIT, MISS raises hits by 1, misses
\* by 3 and evictions by 1 above the values the counters started with.
C4_ColdMissesCounted ==
    /\ cp.hits = cp0.hits + CountOf(hist, {HIT})
    /\ cp.misses = cp0.misses + CountOf(hist, {COLD_MISS, MISS})
    /\ cp.evictions = cp0.evictions + CountOf(hist, {MISS})
    /\ ResultsOf(hist) = <<COLD_MISS, COLD_MISS, HIT, MISS>>
       => /\ cp.hits = cp0.hits + 1
          /\ cp.misses = cp0.misses + 3
          /\ cp.evictions = cp0.evictions + 1

\* C4 witness: the L trace 1, 2, 1, 3 went through one set of two lines and
\* left the counters, which started at zero, at hits 1, misses 3, evictions 1
C4_Witness ==
    /\ sim_cache.lines_per_set = 2
    /\ AddressesOf(hist) = <<1, 2, 1, 3>>
    /\ ResultsOf(hist) = <<COLD_MISS, COLD_MISS, HIT, MISS>>
    /\ cp0 = [hits |-> 0, misses |-> 0, evictions |-> 0]
    /\ cp = [hits |-> 1, misses |-> 3, evictions |-> 1]

\* C5: a tag a MISS has evicted from a set does not hit when it is accessed
\* next: that access is a MISS again and evicts a tag; in one set of two
\* lines the tags
\* 1, 2, 3, 1 are classified COLD_MISS, COLD_MISS, MISS evicting 1, MISS
\* evicting 2.
C5_EvictedTagNotResurrected ==
    /\ \A k \in SetIds :
          LET h == SetAccesses(hist, k)
          IN \A i, j \in 1..Len(h) :
                (/\ i < j
                 /\ h[i].result = MISS
                 /\ h[j].tag_id \in h[i].evicted
                 /\ \A m \in (i + 1)..(j - 1) : h[m].tag_id # h[j].tag_id)
                => /\ h[j].result = MISS
                   /\ Cardinality(h[j].evicted) = 1
    /\ (/\ sim_cache.lines_per_set = 2
        /\ TagsOf(hist) = <<1, 2, 3, 1>>
        /\ \A i \in 1..Len(hist) : hist[i].set_id = hist[1].set_id)
       => /\ ResultsOf(hist) = <<COLD_MISS, COLD_MISS, MISS, MISS>>
          /\ hist[3].evicted = {1}
          /\ hist[4].evicted = {2}

\* C5 witness: tag 1, evicted by the access to tag 3, is accessed again and
\* misses
C5_Witness ==
    /\ sim_cache.lines_per_set = 2
    /\ TagsOf(hist) = <<1, 2, 3, 1>>
    /\ \A i \in 1..Len(hist) : hist[i].set_id = hist[1].set_id
    /\ hist[3].result = MISS /\ hist[3].evicted = {1}
    /\ hist[4].result = MISS

\* the set the step accesses has a line that is not valid
HasInvalidLine(cache, k) == \E i \in DOMAIN cache.sets[k].lines : ~cache.sets[k].lines[i].valid

\* C6 as claimed: the first access of the run to an address is never a HIT:
\* it is a COLD_MISS when its set has an invalid line and a MISS otherwise.
C6_FirstAccessToAddressNeverHits ==
    [][(Accessed /\ \A i \in 1..Len(hist) : hist[i].address # Last(hist').address)
        => Last(hist').result =
              IF HasInvalidLine(sim_cache, Last(hist').set_id) THEN COLD_MISS ELSE MISS
    ]_vars

\* C6 amended: the first access of the run to a block, i.e. to a pair of
\* set_id and tag_id as get_set_and_tag decodes them, is never a HIT: it is a
\* COLD_MISS when its set has an invalid line and a MISS otherwise.
C6_FirstAccessToBlockNeverHits ==
    [][(Accessed /\ \A i \in 1..Len(hist) :
                       \/ hist[i].set_id # Last(hist').set_id
                       \/ hist[i].tag_id # Last(hist').tag_id)
        => Last(hist').result =
              IF HasInvalidLine(sim_cache, Last(hist').set_id) THEN COLD_MISS ELSE MISS
    ]_vars

\* C6 witness: with a block offset bit, the first access to a block of a
\* full set misses, after an address of a block accessed before has hit
C6_Witness ==
    /\ sim_cache.bytes_per_line = 1
    /\ sim_cache.lines_per_set >= 1
    /\ Len(hist) >= 2
    /\ Last(hist).result = MISS
    /\ \A i \in 1..(Len(hist) - 1) :
          hist[i].set_id # Last(hist).set_id \/ hist[i].tag_id # Last(hist).tag_id
    /\ \E i \in 2..Len(hist) :
          /\ hist[i].result = HIT
          /\ \A j \in 1..(i - 1) : hist[j].address # hist[i].address

\* C7 as claimed: an access to the address of the access before it is a HIT.
C7_RepeatedAccessHits ==
    \A i \in 2..Len(hist) :
        hist[i].address = hist[i - 1].address => hist[i].result = HIT

\* C8: in a set of E >= 1 lines, an access to a tag, then E - 1 accesses to
\* other, pairwise different tags of the set, then the tag again: the last
\* access is a HIT.
C8_TouchedLineSurvives ==
    sim_cache.lines_per_set >= 1 =>
      \A k \in SetIds :
          LET h == SetAccesses(hist, k)
              E == sim_cache.lines_per_set
          IN \A i \in 1..Len(h) :
                (/\ i + E <= Len(h)
                 /\ h[i + E].tag_id = h[i].tag_id
                 /\ \A m \in (i + 1)..(i + E - 1) : h[m].tag_id # h[i].tag_id
                 /\ \A m, n \in (i + 1)..(i + E - 1) :
                       m # n => h[m].tag_id # h[n].tag_id)
                => h[i + E].result = HIT

\* C8 witness: in a full set of two lines a tag is accessed, another tag
\* misses and evicts, and the first tag hits
C8_Witness ==
    /\ sim_cache.lines_per_set = 2
    /\ Len(hist) = 4
    /\ \A i \in 1..4 : hist[i].set_id = hist[1].set_id
    /\ hist[3].result = MISS
    /\ hist[4].tag_id = hist[2].tag_id
    /\ hist[4].result = HIT

\* C9: every line is invalid when the run starts, a valid line stays valid
\* in every step, and a MISS changes no validity bit.
C9_ValidIsMonotonic ==
    [][/\ hist = <<>> =>
            \A k \in SetIds : \A i \in Slots : ~sim_cache.sets[k].lines[i].valid
       /\ \A k \in SetIds : \A i \in Slots :
            sim_cache.sets[k].lines[i].valid => sim_cache'.sets[k].lines[i].valid
       /\ (Accessed /\ Last(hist').result = MISS) =>
            \A k \in SetIds : \A i \in Slots :
               sim_cache'.sets[k].lines[i].valid = sim_cache.sets[k].lines[i].valid
    ]_vars

\* C9 witness: a line that became valid has had its tag overwritten by an
\* eviction and is valid
C9_Witness ==
    /\ hist # <<>>
    /\ Last(hist).result = MISS
    /\ Last(hist).evicted # {}
    /\ \E i \in Slots :
          /\ sim_cache.sets[Last(hist).set_id].lines[i].valid
          /\ sim_cache.sets[Last(hist).set_id].lines[i].tag = Last(hist).tag_id

\* C10: an access changes the lines and the list of the set its address
\* decodes to, and of no other set.
C10_OtherSetsUnchanged ==
    [][IF Accessed
       THEN \A k \in SetIds \ {Last(hist').set_id} :
               /\ sim_cache'.sets[k] = sim_cache.sets[k]
               /\ sim_cache'.lru_tracker[k] = sim_cache.lru_tracker[k]
       ELSE sim_cache' = sim_cache
    ]_vars

\* C10 witness: of two sets, both with valid lines, one has taken a HIT, a
\* COLD_MISS and a MISS while the other kept its lines
C10_Witness ==
    /\ sim_cache.sbits = 1
    /\ \A k \in SetIds : \E i \in Slots : sim_cache.sets[k].lines[i].valid
    /\ \E k \in SetIds :
          /\ {HIT, COLD_MISS, MISS} \subseteq
                {hist[i].result : i \in {j \in 1..Len(hist) : hist[j].set_id = k}}
          /\ hist[1].set_id # k

\* the cache a record L with the address would leave behind in this state
AfterLoad(address) ==
    LET loc == Locations[shift_sem, sim_cache.tbits, sim_cache.sbits, address]
    IN IF loc.set_id \in DOMAIN sim_cache.sets
       THEN cache_scan(loc, sim_cache).sim_cache
       ELSE sim_cache

\* C11: a record S or M calls cache_scan once, and leaves the lines and the
\* lists of the cache as a record L with the same address would leave them.
C11_StoreAndModifyAccessLikeLoad ==
    [][type' \in {"S", "M"} =>
         /\ hist' # hist =>
               /\ Len(hist') = Len(hist) + 1
               /\ \A i \in 1..Len(hist) : hist'[i] = hist[i]
               /\ sim_cache' = AfterLoad(Last(hist').address)
         /\ hist' = hist => sim_cache' = sim_cache
    ]_vars

\* C11 witness: a record S has evicted a tag from a set of two lines, after
\* a record M had been counted
C11_Witness ==
    /\ type = "S"
    /\ sim_cache.lines_per_set = 2
    /\ hist # <<>>
    /\ Last(hist).result = MISS
    /\ Last(hist).evicted # {}
    /\ cp.hits > cp0.hits + CountOf(hist, {HIT})

\* C12: a record M adds one to hits and then counts its access as a record L
\* does: on a HIT (the tag was resident) hits grows by 2 and nothing else,
\* on a COLD_MISS hits and misses grow by 1, on a MISS hits, misses and
\* evictions grow by 1.
C12_ModifyCountsOneMoreHit ==
    [][(Accessed /\ type' = "M") =>
         LET r == Last(hist')
         IN /\ r.result = HIT <=> r.tag_id \in ResidentTags(sim_cache, r.set_id)
            /\ r.result = HIT =>
                  cp' = [cp EXCEPT !.hits = @ + 2]
            /\ r.result = COLD_MISS =>
                  cp' = [cp EXCEPT !.hits = @ + 1, !.misses = @ + 1]
            /\ r.result = MISS =>
                  cp' = [cp EXCEPT !.hits = @ + 1, !.misses = @ + 1,
                                   !.evictions = @ + 1]
    ]_vars

\* C12 witness: records M have met a COLD_MISS, a HIT and a MISS; every
\* record of the run was an M (one hit each above the hits of cache_scan)
C12_Witness ==
    /\ type = "M"
    /\ {HIT, COLD_MISS, MISS} \subseteq {hist[i].result : i \in 1..Len(hist)}
    /\ cp.hits = cp0.hits + CountOf(hist, {HIT}) + Len(hist)
    /\ cp.misses = cp0.misses + CountOf(hist, {COLD_MISS, MISS})
    /\ cp.evictions = cp0.evictions + CountOf(hist, {MISS})

\* C13: a record I is not passed to cache_scan: it leaves the lines and the
\* list of every set and the three counters as they were.
C13_InstructionChangesNothing ==
    [][type' = "I" =>
         /\ hist' = hist
         /\ sim_cache' = sim_cache
         /\ cp' = cp
    ]_vars

\* C13 witness: a record I was read when the cache held valid lines and the
\* counters had counted
C13_Witness ==
    /\ type = "I"
    /\ hist # <<>>
    /\ cp # cp0
    /\ \E k \in SetIds : \E i \in Slots : sim_cache.sets[k].lines[i].valid

\* a configuration error: s + b > 64, or a negative s or b
ConfigurationError(cache) ==
    \/ cache.sbits + cache.bytes_per_line > 64
    \/ cache.sbits < 0
    \/ cache.bytes_per_line < 0

\* C14 as claimed: under a configuration error the run stops before the
\* first record of the trace: no record is read and cache_scan is never
\* called.
C14_ConfigurationErrorRejected ==
    ConfigurationError(sim_cache) => (type = "" /\ hist = <<>>)

\* C15 as claimed: under a configuration without error get_set_and_tag
\* yields tag_id = address div 2^(s+b) and set_id = (address div 2^b) mod 2^s
\* for every address.
C15_DecoderSplitsAddress ==
    ~ConfigurationError(sim_cache) =>
      \A a \in Addresses :
          Locations[shift_sem, sim_cache.tbits, sim_cache.sbits, a]
            = [set_id |-> (a \div 2^sim_cache.bytes_per_line) % 2^sim_cache.sbits,
               tag_id |-> a \div 2^(sim_cache.sbits + sim_cache.bytes_per_line)]

\* the lines of set k that are not valid
InvalidSlots(cache, k) ==
    {i \in DOMAIN cache.sets[k].lines : ~cache.sets[k].lines[i].valid}

\* the least element of a set of integers that is not empty
Min(S) == CHOOSE i \in S : \A j \in S : i <= j

\* the first line in the recency order of set k that is not valid
FirstInvalidInOrder(cache, k) ==
    LET order == RecencyOrder(cache, k)
    IN order[Min({i \in 1..Len(order) : order[i] \in InvalidSlots(cache, k)})]

\* C16: an access classified COLD_MISS takes the first invalid line of the
\* recency order, which is the invalid line of the lowest index; that line
\* becomes valid and holds the accessed tag, and no other line of the set
\* changes its validity bit or its tag.
C16_ColdMissFillsLowestInvalidSlot ==
    [][(Accessed /\ Last(hist').result = COLD_MISS) =>
         LET r == Last(hist')
             k == r.set_id
             z == Min(InvalidSlots(sim_cache, k))
         IN /\ InvalidSlots(sim_cache, k) # {}
            /\ z = FirstInvalidInOrder(sim_cache, k)
            /\ sim_cache'.sets[k].lines[z] = [valid |-> TRUE, tag |-> r.tag_id]
            /\ \A i \in Slots \ {z} :
                  sim_cache'.sets[k].lines[i] = sim_cache.sets[k].lines[i]
    ]_vars

\* C16 witness: in a set of two lines the second line was filled by a
\* COLD_MISS after the first line had been hit
C16_Witness ==
    /\ sim_cache.lines_per_set = 2
    /\ ResultsOf(hist) = <<COLD_MISS, HIT, COLD_MISS>>
    /\ \A i \in 1..Len(hist) : hist[i].set_id = hist[1].set_id
    /\ sim_cache.sets[hist[1].set_id].lines[0]
          = [valid |-> TRUE, tag |-> hist[1].tag_id]
    /\ sim_cache.sets[hist[1].set_id].lines[1]
          = [valid |-> TRUE, tag |-> hist[3].tag_id]

\* the line an access touches: the matching line on a HIT, the line that
\* becomes valid on a COLD_MISS, the line whose tag is overwritten on a MISS
TouchedSlots(before, after, r) ==
    LET k == r.set_id
    IN IF r.result = HIT
       THEN {i \in DOMAIN before.sets[k].lines :
               line_matches(before.sets[k].lines[i], r.tag_id)}
       ELSE IF r.result = COLD_MISS
       THEN {i \in DOMAIN before.sets[k].lines :
               ~before.sets[k].lines[i].valid /\ after.sets[k].lines[i].valid}
       ELSE {i \in DOMAIN before.sets[k].lines :
               before.sets[k].lines[i].tag # after.sets[k].lines[i].tag}

\* the sequence without its elements equal to z
Without(seq, z) == SelectSeq(seq, LAMBDA x : x # z)

RefStep(list, t, E) ==
    IF \E i \in 1..Len(list) : list[i] = t
    THEN [result |-> HIT, list |-> <<t>> \o Without(list, t)]
    ELSE IF Len(list) < E
    THEN [result |-> COLD_MISS, list |-> <<t>> \o list]
    ELSE [result |-> MISS, list |-> <<t>> \o SubSeq(list, 1, Len(list) - 1)]

RECURSIVE RefList(_, _)
\* the list of the reference cache after the accesses to the tags
RefList(tags, E) ==
    IF Len(tags) = 0 THEN <<>>
    ELSE RefStep(RefList(SubSeq(tags, 1, Len(tags) - 1), E), tags[Len(tags)], E).list

\* the results of the reference cache for the accesses to the tags
RefResults(tags, E) ==
    [i \in 1..Len(tags) |->
        RefStep(RefList(SubSeq(tags, 1, i - 1), E), tags[i], E).result]

\* the tags of the valid lines of set k in recency order
TagsInRecencyOrder(cache, k) ==
    LET valid == SelectSeq(RecencyOrder(cache, k),
                           LAMBDA i : cache.sets[k].lines[i].valid)
    IN [i \in 1..Len(valid) |-> cache.sets[k].lines[valid[i]].tag]

\* C18: with lines_per_set >= 1 the results cache_scan returns for the
\* accesses to a set are, access by access, the results of the reference LRU
\* cache of lines_per_set tags (HIT, COLD_MISS = miss without eviction,
\* MISS = miss with eviction), and the valid lines of the set, in recency
\* order, hold the tags of its list.
C18_RefinesReferenceLRU ==
    sim_cache.lines_per_set >= 1 =>
      \A k \in SetIds :
          LET h == SetAccesses(hist, k)
          IN /\ ResultsOf(h) = RefResults(TagsOf(h), sim_cache.lines_per_set)
             /\ TagsInRecencyOrder(sim_cache, k)
                   = RefList(TagsOf(h), sim_cache.lines_per_set)

\* C18 witness: in a set of two lines a tag was evicted and the tag that
\* stayed was hit
C18_Witness ==
    /\ sim_cache.lines_per_set = 2
    /\ ResultsOf(hist) = <<COLD_MISS, COLD_MISS, MISS, HIT>>
    /\ \A i \in 1..Len(hist) : hist[i].set_id = hist[1].set_id
    /\ hist[3].evicted = {hist[1].tag_id}
    /\ hist[4].tag_id = hist[2].tag_id

\* C19: in the recency order of every set no invalid line stands before a
\* valid line; in a set with lines the line at the tail is valid exactly
\* when every line is valid, and the node LRU_miss takes as victim in a full
\* set is the node of that line.
C19_ValidSlotsPrecedeInvalidSlots ==
    \A k \in SetIds :
        LET order == RecencyOrder(sim_cache, k)
            lines == sim_cache.sets[k].lines
            E == sim_cache.lines_per_set
        IN /\ \A i, j \in 1..Len(order) :
                 (i < j /\ lines[order[j]].valid) => lines[order[i]].valid
           /\ E >= 1 =>
                 /\ Len(order) = E
                 /\ lines[order[E]].valid <=> InvalidSlots(sim_cache, k) = {}
                 /\ InvalidSlots(sim_cache, k) = {} =>
                       LET victim == miss_victim(sim_cache.lru_tracker[k], E)
                       IN /\ sim_cache.lru_tracker[k][victim].idx - 1 = order[E]
                          /\ lines[order[E]].valid

\* C19 witness: a set of two lines holds one valid line, which was hit, at
\* the head of its order and one invalid line at the tail, while another set
\* is full
C19_Witness ==
    /\ sim_cache.lines_per_set = 2
    /\ \E k \in SetIds :
          /\ Cardinality(InvalidSlots(sim_cache, k)) = 1
          /\ ~sim_cache.sets[k].lines[Last(RecencyOrder(sim_cache, k))].valid
          /\ \E i \in 1..Len(hist) : hist[i].set_id = k /\ hist[i].result = HIT
    /\ \E k \in SetIds : InvalidSlots(sim_cache, k) = {}

\* the number of valid lines of the cache
ValidLines(cache) ==
    Cardinality({ki \in (DOMAIN cache.sets) \X (0..(cache.lines_per_set - 1)) :
                   cache.sets[ki[1]].lines[ki[2]].valid})

\* C20 as claimed: at every point of the run evictions <= misses, and
\* misses - evictions is the number of valid lines of the cache.
C20_MissesMinusEvictionsCountValidLines ==
    /\ cp.evictions <= cp.misses
    /\ cp.misses - cp.evictions = ValidLines(sim_cache)

\* C21 as claimed: whatever lines_per_set the run was started with (s and b
\* without configuration error), no access indexes the lines of a set
\* outside 0 .. lines_per_set - 1: the idx of a sentry node is never used as
\* the index of a line.
C21_AccessesStayInsideLines ==
    ~ConfigurationError(sim_cache) =>
      \A k \in SetIds : ~sim_cache.sets[k].overrun

====
